---------------------------- MODULE Spec2Model ----------------------------
(***************************************************************************)
(* Model of the tutorLTI backend: the RAG document index                   *)
(* (services/rag_service.py, routes/documents.py), the adaptive memory     *)
(* (services/memory_service.py, routes/grades.py) and the tutor routes     *)
(* (routes/tutor.py, services/llm_factory.py).                             *)
(*                                                                         *)
(* Texts are run-length encoded strings: a sequence of runs [ch, n] with   *)
(* n > 0 and adjacent runs of different characters; the character " " is   *)
(* whitespace.  Scores are counted in tenths of a percent point.           *)
(***************************************************************************)
EXTENDS Integers, Sequences, FiniteSets, TLC

VARIABLES
    store,      \* ChromaDB: collection name -> [dim, items]; items: id -> entry
    cached,     \* rag_service._collections: names with a cached handle
    ret,        \* the last call of the index API and what it returned
    calls       \* the calls of the index API in progress: calls[i] is the
                \* position and the locals of the i-th request thread

VARIABLES
    sessions,   \* models._sessions: sessions[i] is the TutorSession with id i
    messages,   \* models._messages: messages[i] is the message list of session i
    memory,     \* AdaptiveMemory: <<user_id, resource_id>> -> record
    analytics,  \* the users with a LearningAnalytics record that needs_intervention
    llm,        \* [provider: LLM_PROVIDER, instance: LLMFactory._instance]
    clock,      \* datetime.utcnow(), counted in readings
    quizzes,    \* history: the update_quiz_score calls so far
    out         \* the last request to the tutor or the memory service, and its outcome

ragVars == <<store, cached, ret, calls>>
tutorVars == <<sessions, messages, memory, analytics, llm, clock, quizzes, out>>

Min(a, b) == IF a < b THEN a ELSE b
Max(a, b) == IF a > b THEN a ELSE b

-----------------------------------------------------------------------------
(* Strings *)

Run(c, n) == [ch |-> c, n |-> n]

\* len(text)
RECURSIVE StrLen(_)
StrLen(t) == IF t = <<>> THEN 0 ELSE Head(t).n + StrLen(Tail(t))

\* text[s:e] for 0 <= s <= e
RECURSIVE Slice(_, _, _)
Slice(t, s, e) ==
    IF t = <<>> \/ e <= 0 THEN <<>>
    ELSE LET h == Head(t)
             a == Max(s, 0)
             b == Min(e, h.n)
         IN  (IF a < b THEN <<Run(h.ch, b - a)>> ELSE <<>>)
                 \o Slice(Tail(t), s - h.n, e - h.n)

IsSpace(r) == r.ch = " "

\* str.strip(): leading and trailing whitespace removed
Strip(t) ==
    LET l == IF t # <<>> /\ IsSpace(Head(t)) THEN Tail(t) ELSE t
    IN  IF l # <<>> /\ IsSpace(l[Len(l)]) THEN SubSeq(l, 1, Len(l) - 1) ELSE l

-----------------------------------------------------------------------------
(* rag_service: chunker and embedder *)

CHUNK_SIZE == 600
CHUNK_OVERLAP == 80
MinChunkLen == 40
FallbackDims == 256
FallbackPrefix == 200
ProviderDims == 768
TopK == 3

RECURSIVE WindowsNoOverlap(_, _)
WindowsNoOverlap(text, start) ==
    IF start < StrLen(text)
    THEN <<Strip(Slice(text, start, Min(start + CHUNK_SIZE, StrLen(text))))>>
             \o WindowsNoOverlap(text, start + CHUNK_SIZE)
    ELSE <<>>
\* the windows of _chunk_text's while loop, each stripped
RECURSIVE Windows(_, _)
Windows(text, start) ==
    IF start < StrLen(text)
    THEN <<Strip(Slice(text, start, Min(start + CHUNK_SIZE, StrLen(text))))>>
             \o Windows(text, start + CHUNK_SIZE - CHUNK_OVERLAP)
    ELSE <<>>

ChunkText(text) == SelectSeq(Windows(text, 0), LAMBDA c : StrLen(c) > MinChunkLen)

\* the provider's vector of a text: one per distinct text, ProviderDims long
ProviderVec(t) == [dims |-> ProviderDims, space |-> "provider", key |-> t]

\* hash_embed: SHA-256 of "i:" + text[:200] for each of the 256 dimensions
HashEmbed(t) == [dims |-> FallbackDims, space |-> "fallback",
                 key |-> Slice(t, 0, FallbackPrefix)]

\* lines 75-82: the vectors the loop has appended when it ends; failAt is the
\* request of the loop that raises (0: none)
Requested(texts, failAt) ==
    [i \in 1..(IF failAt \in 1..Len(texts) THEN failAt - 1 ELSE Len(texts)) |->
        ProviderVec(texts[i])]

EmbeddedOneByOne(texts, done, raised) ==
    done \o [i \in 1..(Len(texts) - Len(done)) |-> HashEmbed(texts[Len(done) + i])]
\* lines 83-97: done is returned, unless a request raised: then the except
\* clause drops it and every text is hashed
Embedded(texts, done, raised) ==
    IF raised THEN [i \in 1..Len(texts) |-> HashEmbed(texts[i])] ELSE done

\* _embed with the requests it makes: probe is what the first request, for
\* texts[0], does ("ok": status 200, "status": another status, "raise");
\* texts[0] of an empty batch raises IndexError
EmbedBatch(texts, probe, failAt) ==
    IF texts = <<>> \/ probe # "ok"
    THEN Embedded(texts, <<>>, TRUE)
    ELSE Embedded(texts, Requested(texts, failAt), failAt \in 1..Len(texts))

\* _embed; prov is what the provider does during this call: "up", or "down"
\* (the probe or a later request fails, and the whole batch is hashed)
Embed(texts, prov) == EmbedBatch(texts, IF prov = "up" THEN "ok" ELSE "raise", 0)

-----------------------------------------------------------------------------
(* rag_service: collections *)

\* hashlib.md5(resource_id.encode()).hexdigest()[:12], tabulated
Md5Hex12(r) ==
    CASE r = "default"          -> "c21f969b5f03"
      [] r = "dev-resource-001" -> "bc02a314a30a"
      [] r = "res-17646193"     -> "1a12501ff8c4"
      [] r = "res-20854073"     -> "1a12501ff8c4"

CollectionName(r) == "rag_" \o Md5Hex12(r)

EmptyItems == [x \in {} |-> x]
EmptyCollection == [dim |-> 0, items |-> EmptyItems]

\* _get_collection: the cached handle, or get_or_create_collection
Handle(st, ca, name) ==
    [name   |-> name,
     cached |-> ca \cup {name},
     store  |-> IF name \in ca \/ name \in DOMAIN st THEN st
                ELSE st @@ (name :> EmptyCollection)]

GetCollection(st, ca, r) == Handle(st, ca, CollectionName(r))

\* collection.get(where={"doc_id": d})['ids']
IdsOfDoc(items, d) == {x \in DOMAIN items : items[x].doc_id = d}

\* collection.delete(ids=ids)
DeleteIds(items, ids) == [x \in DOMAIN items \ ids |-> items[x]]

\* the entries ingest_document builds for one document; the id
\* f"{doc_id}_chunk_{i}" is the pair <<doc_id, i>>; rid is a history field
\* (the resource id of the call), not stored by the program
NewItems(r, d, fn, chunks, emb) ==
    [x \in {<<d, i>> : i \in 0..(Len(chunks) - 1)} |->
        [doc_id |-> d, filename |-> fn, chunk |-> x[2],
         document |-> chunks[x[2] + 1], embedding |-> emb[x[2] + 1],
         rid |-> r]]

\* collection.add; dup is what this Chroma build does with an id that is
\* already stored ("ignore": the stored entry stays, "raise"); a vector of
\* another length than the collection's raises InvalidDimensionException
AddRaises(coll, new, fault, dup) ==
    \/ fault = "add"
    \/ \E x \in DOMAIN new : coll.dim # 0 /\ new[x].embedding.dims # coll.dim
    \/ dup = "raise" /\ DOMAIN new \cap DOMAIN coll.items # {}

AddItems(coll, new) ==
    [dim   |-> IF coll.dim = 0 /\ DOMAIN new # {}
               THEN new[CHOOSE x \in DOMAIN new : TRUE].embedding.dims
               ELSE coll.dim,
     items |-> coll.items @@ new]

-----------------------------------------------------------------------------
(* rag_service: the index API.  Each operator gives the state the call     *)
(* leaves and what the caller sees.  fault is the step of the call at      *)
(* which the store fails ("none": it does not).                            *)

\* the ids ingest_document deletes before it adds: those stored for doc_id
StaleIdsByNewIds(items, d, newIds) == newIds \cap DOMAIN items
StaleIds(items, d, newIds) == IdsOfDoc(items, d)

\* the index a rejected ingestion leaves: both raises precede _get_collection
RejectedAfterOpen(st, ca, r) ==
    [store |-> GetCollection(st, ca, r).store, cached |-> GetCollection(st, ca, r).cached]
Rejected(st, ca, r) == [store |-> st, cached |-> ca]

\* lines 147-157 of ingest_document: the stored chunks of the document are
\* deleted (a failing lookup is swallowed), then the new ones are added;
\* g: the opened collection, kept: the collection after the delete
Replace(g, kept, new, fails) ==
    [store  |-> [g.store EXCEPT ![g.name] = IF fails THEN kept ELSE AddItems(kept, new)],
     cached |-> g.cached,
     status |-> IF fails THEN "raised" ELSE "ok",
     n      |-> IF fails THEN 0 ELSE Cardinality(DOMAIN new)]

Upsert(g, kept, new, fault, dup) ==
    Replace(g, kept, new, AddRaises(kept, new, fault, dup))

Index(g, d, new, fault, dup) ==
    Upsert(g,
           [g.store[g.name] EXCEPT !.items =
               DeleteIds(@, IF fault = "get" THEN {} ELSE StaleIds(@, d, DOMAIN new))],
           new, fault, dup)

\* lines 138-145 of ingest_document
IngestChunks(st, ca, r, d, fn, chunks, prov, fault, dup) ==
    IF chunks = <<>>
    THEN Rejected(st, ca, r) @@ [status |-> "too_short", n |-> 0]
    ELSE IF fault = "open"
    THEN [store |-> st, cached |-> ca, status |-> "raised", n |-> 0]
    ELSE Index(GetCollection(st, ca, r), d,
               NewItems(r, d, fn, chunks, Embed(chunks, prov)), fault, dup)

\* text: what extract_text returns ("" when the extraction fails)
IngestDocument(st, ca, r, d, fn, text, prov, fault, dup) ==
    IF Strip(text) = <<>>
    THEN Rejected(st, ca, r) @@ [status |-> "no_text", n |-> 0]
    ELSE IngestChunks(st, ca, r, d, fn, ChunkText(text), prov, fault, dup)

\* what retrieve_context puts in the prompt for one hit; rid and doc_id are
\* history fields
Part(e) == [filename |-> e.filename, document |-> e.document,
            rid |-> e.rid, doc_id |-> e.doc_id]

\* the try block of retrieve_context; hits: the ids collection.query ranks
\* nearest, min(k, count) of them
Query(g, coll, qe, fault, hits) ==
    IF DOMAIN coll.items = {}
    THEN [store |-> g.store, cached |-> g.cached, raised |-> FALSE, ctx |-> {}]
    ELSE IF fault = "query" \/ coll.dim # qe.dims
    THEN [store |-> g.store, cached |-> g.cached, raised |-> TRUE, ctx |-> {}]
    ELSE [store |-> g.store, cached |-> g.cached, raised |-> FALSE,
          ctx |-> {Part(coll.items[x]) : x \in hits}]

Opened(g, qe, fault, hits) == Query(g, g.store[g.name], qe, fault, hits)

RetrieveBody(st, ca, q, r, prov, fault, hits) ==
    IF fault = "open"
    THEN [store |-> st, cached |-> ca, raised |-> TRUE, ctx |-> {}]
    ELSE Opened(GetCollection(st, ca, r), Embed(<<q>>, prov)[1], fault, hits)

Propagated(b) ==
    [store |-> b.store, cached |-> b.cached,
     status |-> IF b.raised THEN "raised" ELSE "returned", ctx |-> b.ctx]

\* the except clause of retrieve_context turns every failure into ""
Caught(b) ==
    [store |-> b.store, cached |-> b.cached, status |-> "returned",
     ctx |-> IF b.raised THEN {} ELSE b.ctx]

RetrieveContext(st, ca, q, r, prov, fault, hits) ==
    Caught(RetrieveBody(st, ca, q, r, prov, fault, hits))

\* the id sets collection.query may return for resource r
HitChoices(st, r) ==
    LET name == CollectionName(r)
        ids  == IF name \in DOMAIN st THEN DOMAIN st[name].items ELSE {}
    IN  {h \in SUBSET ids : Cardinality(h) = Min(TopK, Cardinality(ids))}

DeleteFrom(g, ids, fault) ==
    IF fault = "get" \/ ids = {}
    THEN [store |-> g.store, cached |-> g.cached, found |-> FALSE]
    ELSE [store |-> [g.store EXCEPT ![g.name].items = DeleteIds(@, ids)],
          cached |-> g.cached, found |-> TRUE]

DeleteOpened(g, d, fault) ==
    DeleteFrom(g, IdsOfDoc(g.store[g.name].items, d), fault)

DeleteDocument(st, ca, d, r, fault) ==
    IF fault = "open"
    THEN [store |-> st, cached |-> ca, found |-> FALSE]
    ELSE DeleteOpened(GetCollection(st, ca, r), d, fault)

\* collection.get(include=['metadatas']): the stored metadata, one per chunk
RECURSIVE Metadatas(_, _)
Metadatas(items, ids) ==
    IF ids = {} THEN <<>>
    ELSE LET x == CHOOSE y \in ids : \A z \in ids \cap IdsOfDoc(items, items[y].doc_id) :
                                        y[2] <= z[2]
         IN  <<items[x]>> \o Metadatas(items, ids \ {x})

RECURSIVE ListedEveryChunk(_, _)
ListedEveryChunk(metas, seen) ==
    IF metas = <<>> THEN seen
    ELSE ListedEveryChunk(Tail(metas),
             Append(seen, [doc_id |-> Head(metas).doc_id, filename |-> Head(metas).filename]))
\* the seen dict of list_documents: the first metadata of each doc_id
RECURSIVE Listed(_, _)
Listed(metas, seen) ==
    IF metas = <<>> THEN seen
    ELSE Listed(Tail(metas),
                IF \E i \in DOMAIN seen : seen[i].doc_id = Head(metas).doc_id
                THEN seen
                ELSE Append(seen, [doc_id |-> Head(metas).doc_id,
                                   filename |-> Head(metas).filename]))

\* what list_documents returns: docs is the set of the entries, n their number
ListReturned(g, l) ==
    [store |-> g.store, cached |-> g.cached,
     docs |-> {l[i] : i \in DOMAIN l}, n |-> Len(l)]

ListOpened(g, fault) ==
    ListReturned(g, IF fault = "get" THEN <<>>
                    ELSE Listed(Metadatas(g.store[g.name].items,
                                          DOMAIN g.store[g.name].items), <<>>))

ListDocuments(st, ca, r, fault) ==
    IF fault = "open"
    THEN [store |-> st, cached |-> ca, docs |-> {}, n |-> 0]
    ELSE ListOpened(GetCollection(st, ca, r), fault)

-----------------------------------------------------------------------------
(* Inputs *)

ResourceIds == {"default", "dev-resource-001"}
\* two resource ids whose MD5 digests share their first 12 hex digits
CollidingIds == {"res-17646193", "res-20854073"}
Docs == {"d1", "d2"}
Filenames == {"notes.txt"}
Provider == {"up", "down"}
StoreFaults == {"none", "open", "get", "add", "query"}
DupPolicy == {"ignore", "raise"}

TxtNone   == <<>>
TxtBlank  == <<Run(" ", 50)>>
TxtPadded == <<Run(" ", 10), Run("a", 40), Run(" ", 10)>>
TxtOne    == <<Run("a", 100)>>
TxtTwo    == <<Run("b", 700)>>
Texts == {TxtNone, TxtBlank, TxtPadded, TxtOne, TxtTwo}
Queries == {<<Run("a", 20)>>}

Roles == {"instructor", "student"}
Files == {"ok", "missing", "badext", "huge"}

-----------------------------------------------------------------------------
(* Actions of the index *)

RetNone ==
    [op |-> "none", rid |-> "", doc |-> "", text |-> <<>>, prov |-> "",
     fault |-> "", status |-> "", n |-> 0, had |-> 0, ctx |-> {},
     found |-> FALSE, docs |-> {}, http |-> 0]

\* the chunks document d has in the collection of resource r
DocItems(st, r, d) ==
    LET name == CollectionName(r)
    IN  IF name \in DOMAIN st
        THEN {st[name].items[x] : x \in IdsOfDoc(st[name].items, d)}
        ELSE {}

RagInit ==
    /\ store = [x \in {} |-> x]
    /\ cached = {}
    /\ calls = <<>>
    /\ ret = RetNone

\* the call leaves the index of res and returns to the caller what r records
Returns(res, r) ==
    /\ store' = res.store
    /\ cached' = res.cached
    /\ ret' = r
    /\ UNCHANGED <<calls, tutorVars>>

IngestRet(res, r, d, t, f, had) ==
    Returns(res, [RetNone EXCEPT !.op = "ingest", !.rid = r, !.doc = d, !.text = t,
                     !.fault = f, !.status = res.status, !.n = res.n, !.had = had])

Ingest(rids, faults) ==
    \E r \in rids, d \in Docs, fn \in Filenames, t \in Texts, p \in Provider,
       f \in faults \ {"query"} :
      \E dup \in IF f = "get" THEN DupPolicy ELSE {"ignore"} :
        IngestRet(IngestDocument(store, cached, r, d, fn, t, p, f, dup),
                  r, d, t, f, Cardinality(DocItems(store, r, d)))

\* instructor_required and the checks of upload_document before the file is
\* indexed: the HTTP status they answer with, 0 when they pass
UploadRefusal(role, file) ==
    IF role \notin {"instructor", "admin"} THEN 403
    ELSE IF file \in {"missing", "noname", "badext"} THEN 400
    ELSE IF file = "huge" THEN 413
    ELSE 0

UploadRet(res, r, d, t, f) ==
    Returns(res, [RetNone EXCEPT !.op = "upload", !.rid = r, !.doc = d, !.text = t,
                     !.fault = f, !.status = res.status, !.n = res.n,
                     !.http = IF res.status = "ok" THEN 200 ELSE 500])

\* routes/documents.py upload_document; uuid4 gives a doc_id not in use
Upload(rids, faults) ==
    \E role \in Roles, file \in Files :
        IF UploadRefusal(role, file) # 0
        THEN /\ UNCHANGED <<store, cached, calls, tutorVars>>
             /\ ret' = [RetNone EXCEPT !.op = "upload", !.status = "refused",
                           !.http = UploadRefusal(role, file)]
        ELSE \E r \in rids, d \in Docs, fn \in Filenames, t \in Texts,
                p \in Provider, f \in faults \ {"query", "get"} :
                /\ \A q \in rids : DocItems(store, q, d) = {}
                /\ UploadRet(IngestDocument(store, cached, r, d, fn, t, p, f, "ignore"),
                             r, d, t, f)

RetrieveRet(res, r, p, f) ==
    Returns(res, [RetNone EXCEPT !.op = "retrieve", !.rid = r, !.prov = p,
                     !.fault = f, !.status = res.status, !.ctx = res.ctx])

Retrieve(rids, faults) ==
    \E q \in Queries, r \in rids, p \in Provider, f \in faults \ {"get", "add"} :
      \E hits \in HitChoices(store, r) :
        RetrieveRet(RetrieveContext(store, cached, q, r, p, f, hits), r, p, f)

DeleteRet(res, r, d, f, had) ==
    Returns(res, [RetNone EXCEPT !.op = "delete", !.rid = r, !.doc = d, !.fault = f,
                     !.status = "returned", !.found = res.found, !.had = had])

Delete(rids, faults) ==
    \E d \in Docs, r \in rids, f \in faults \ {"query", "add"} :
        DeleteRet(DeleteDocument(store, cached, d, r, f), r, d, f,
                  Cardinality(DocItems(store, r, d)))

ListRet(res, r, f) ==
    Returns(res, [RetNone EXCEPT !.op = "list", !.rid = r, !.fault = f,
                     !.status = "returned", !.docs = res.docs, !.n = res.n])

List(rids, faults) ==
    \E r \in rids, f \in faults \ {"query", "add"} :
        ListRet(ListDocuments(store, cached, r, f), r, f)

RagNext(rids, faults) ==
    \/ Ingest(rids, faults)
    \/ Upload(rids, faults)
    \/ Retrieve(rids, faults)
    \/ Delete(rids, faults)
    \/ List(rids, faults)

-----------------------------------------------------------------------------
(* AdaptiveMemory and memory_service *)

TopicCap == 5
AreaCap == 3
UserMessageWindow == 10
Unset == -1

\* a record as get_or_create makes it
DefaultMemory ==
    [last_topics |-> <<>>, weak_areas |-> <<>>, strong_areas |-> <<>>,
     summary |-> "", session_count |-> 0, total_messages |-> 0,
     average_quiz_score |-> Unset, last_seen |-> Unset]

EmptyMemory == [k \in {} |-> DefaultMemory]

\* AdaptiveMemory.get_or_create: the store with a record for the key
MemGetOrCreate(mem, k) == IF k \in DOMAIN mem THEN mem ELSE mem @@ (k :> DefaultMemory)

\* AdaptiveMemory.save
MemSave(mem, k, rec) == [mem EXCEPT ![k] = rec]

\* list(dict.fromkeys(s)): the first occurrence of each element, in order
RECURSIVE Dedup(_)
Dedup(s) ==
    IF s = <<>> THEN <<>>
    ELSE <<Head(s)>> \o Dedup(SelectSeq(Tail(s), LAMBDA x : x # Head(s)))

\* s[:n]
Take(s, n) == SubSeq(s, 1, Min(n, Len(s)))

Concatenated(new, old, cap) == new \o old
MergeOldFirst(new, old, cap) == Take(Dedup(old \o new), cap)
\* list(dict.fromkeys(new + old))[:cap]
Merge(new, old, cap) == Take(Dedup(new \o old), cap)

\* the text the LLM answers the compression prompt with: fence is what
\* surrounds the body ("none", "json": ```json .. ```, "bare": ``` .. ```,
\* "lead": prose before the fence); kind is what json.loads makes of the body;
\* notlist names the first field whose value cannot be concatenated to a list
\* and hashed item by item ("": none)
Reply(fence, kind, topics, weak, strong, summary, notlist) ==
    [fence |-> fence, kind |-> kind, topics |-> topics, weak_areas |-> weak,
     strong_areas |-> strong, summary |-> summary, notlist |-> notlist]

\* lines 123-127: the fences are removed at the two ends only
Parses(reply) == reply.fence \in {"none", "json", "bare"} /\ reply.kind = "object"

\* lines 129-139: the assignments up to the first one that raises
Merged(rec, data) ==
    IF data.notlist = "topics" THEN rec
    ELSE IF data.notlist = "weak_areas"
    THEN [rec EXCEPT !.last_topics = Merge(data.topics, @, TopicCap)]
    ELSE IF data.notlist = "strong_areas"
    THEN [rec EXCEPT !.last_topics = Merge(data.topics, @, TopicCap),
                     !.weak_areas = Merge(data.weak_areas, @, AreaCap)]
    ELSE [rec EXCEPT !.last_topics = Merge(data.topics, @, TopicCap),
                     !.weak_areas = Merge(data.weak_areas, @, AreaCap),
                     !.strong_areas = Merge(data.strong_areas, @, AreaCap),
                     !.summary = data.summary]

\* the inner try of update_memory_from_session: a call that raises and a
\* text that does not parse to an object leave the record as it is
Analysed(rec, reply) ==
    IF reply.kind # "raise" /\ Parses(reply) THEN Merged(rec, reply) ELSE rec

\* lines 96-98
Counted(rec, msgs, now) ==
    [rec EXCEPT !.session_count = @ + 1, !.total_messages = @ + Len(msgs),
                !.last_seen = now]

\* [m.content for m in messages if m.role == 'user'][:10]
UserMessages(msgs) ==
    Take(SelectSeq(msgs, LAMBDA m : m.role = "user"), UserMessageWindow)

\* lines 106-109: the conversation text of the compression prompt
ConversationText(msgs) ==
    [i \in DOMAIN UserMessages(msgs) |-> UserMessages(msgs)[i].content]

\* line 121 is reached: the messages were fetched, the record was opened and
\* the session has a user message
LlmAsked(msgs, fault) == fault \notin {"fetch", "create"} /\ UserMessages(msgs) # <<>>

\* lines 101-143 on the record rec of key k; mem holds the record
Compressed(mem, k, rec, msgs, reply, fault) ==
    IF fault = "save"
    THEN [memory |-> mem, raised |-> TRUE]
    ELSE [memory |-> MemSave(mem, k, IF UserMessages(msgs) = <<>> THEN rec
                                     ELSE Analysed(rec, reply)),
          raised |-> FALSE]

Created(mem, k, msgs, reply, fault, now) ==
    Compressed(mem, k, Counted(mem[k], msgs, now), msgs, reply, fault)

\* the outer try block, lines 91-144; fault is the store call that raises
UpdateBody(mem, msgs, k, reply, fault, now) ==
    IF fault = "fetch" THEN [memory |-> mem, raised |-> TRUE]
    ELSE IF msgs = <<>> THEN [memory |-> mem, raised |-> FALSE]
    ELSE IF fault = "create" THEN [memory |-> mem, raised |-> TRUE]
    ELSE Created(MemGetOrCreate(mem, k), k, msgs, reply, fault, now)

Reraised(b) == [memory |-> b.memory, status |-> IF b.raised THEN "raised" ELSE "returned"]
\* lines 146-147: the error is logged
Logged(b) == [memory |-> b.memory, status |-> "returned"]

UpdateMemoryFromSession(mem, msgs, k, reply, fault, now) ==
    Logged(UpdateBody(mem, msgs, k, reply, fault, now))

\* the dict build_memory_context makes of a record
ContextOf(rec) ==
    [memory_summary |-> rec.summary, last_topics |-> rec.last_topics,
     weak_areas |-> rec.weak_areas, strong_areas |-> rec.strong_areas,
     session_count |-> rec.session_count,
     average_quiz_score |-> rec.average_quiz_score, last_seen |-> rec.last_seen]

BuildAndCreate(mem, k) ==
    [memory |-> MemGetOrCreate(mem, k), context |-> <<ContextOf(MemGetOrCreate(mem, k)[k])>>]
\* build_memory_context: the store it leaves and the dict it returns (<<>>
\* for {}); AdaptiveMemory.get reads the record of the key, None if there is none
BuildMemoryContext(mem, k) ==
    [memory |-> mem,
     context |-> IF k \in DOMAIN mem THEN <<ContextOf(mem[k])>> ELSE <<>>]

\* generate_welcome_message: the generic greeting for a first visit, else the
\* LLM's greeting, or the fixed one when the LLM call raises
GenerateWelcomeMessage(mem, k, llmRaises) ==
    [memory |-> mem,
     welcome |-> IF k \notin DOMAIN mem \/ mem[k].session_count = 0 THEN "first"
                 ELSE IF llmRaises THEN "again" ELSE "personal"]

\* round(num / den, 0) for num >= 0, den > 0; when the quotient is half-way
\* the binary floating-point value decides, and both neighbours are possible
Rounded(num, den) ==
    IF (2 * num) % (2 * den) = den THEN {num \div den, num \div den + 1}
    ELSE {(2 * num + den) \div (2 * den)}

\* grades.py line 54, in tenths
Percentage(score, max_score) ==
    IF max_score > 0 THEN Rounded(1000 * score, max_score) ELSE {0}

EmaOverwrite(old, s) == {s}
\* update_quiz_score lines 154-158, in tenths: the values the average may take
Ema(old, s) == IF old = Unset THEN {s} ELSE Rounded(7 * old + 3 * s, 10)

\* update_quiz_score with the new average v; fault is the store call that raises
UpdateQuizScore(mem, k, v, fault) ==
    IF fault \in {"create", "save"} THEN
        IF fault = "save" THEN MemGetOrCreate(mem, k) ELSE mem
    ELSE [MemGetOrCreate(mem, k) EXCEPT ![k].average_quiz_score = v]

-----------------------------------------------------------------------------
(* Inputs of the tutor and of the memory service *)

Users == {"u1", "u2"}
\* a request whose Flask session holds no lti_user
Anon == "anon"
\* no session_id in the request, or one that is not stored
NoSession == 0
CompressEvery == 10

MaxSessions == 1
MaxMessages == 10
MaxCompress == 2
MaxGrades == 3
TutorGrades == 1

NoReply == Reply("none", "none", <<>>, <<>>, <<>>, "", "")
ReplyShort == Reply("none", "object", <<"t1", "t2", "t3">>, <<"t1">>, <<"t2">>, "s1", "")
ReplyLong ==
    Reply("json", "object", <<"t4", "t5", "t4", "t6", "t7", "t8", "t1">>,
          <<"t2", "t3", "t2", "t4", "t5">>, <<"t1", "t1", "t6", "t4", "t5">>, "s2", "")
ReplyBadWeak == Reply("bare", "object", <<"t5">>, <<>>, <<>>, "s3", "weak_areas")
ReplyLead == Reply("lead", "object", <<"t1">>, <<>>, <<>>, "s1", "")
ReplyArray == Reply("none", "array", <<>>, <<>>, <<>>, "", "")
ReplyText == Reply("none", "text", <<>>, <<>>, <<>>, "", "")
ReplyRaise == Reply("none", "raise", <<>>, <<>>, <<>>, "", "")
Replies == {ReplyShort, ReplyLong, ReplyBadWeak, ReplyLead, ReplyArray, ReplyText, ReplyRaise}

MemFaults == {"none", "fetch", "create", "save"}
Scores == {0, 5, 8, 10}
MaxScores == {0, 10}

UserMessage == [role |-> "user", content |-> "question"]
AssistantMessage == [role |-> "assistant", content |-> "reply"]
Exchange == <<UserMessage, AssistantMessage>>

-----------------------------------------------------------------------------
(* llm_factory and the tutor routes *)

\* LLMFactory.get_tutor; GeminiTutorService(system_prompt=...) raises
\* TypeError (its __init__ takes no argument) and leaves _instance unset
GetTutor(l) ==
    IF l.instance = "none" /\ l.provider = "ollama"
    THEN [l EXCEPT !.instance = "ollama"] ELSE l

OutNone ==
    [op |-> "none", user |-> "", rid |-> "", sid |-> NoSession, http |-> 0,
     status |-> "", fault |-> "", reply |-> NoReply, fed |-> NoSession,
     score |-> Unset, rag |-> {}, asked |-> FALSE, prompt |-> <<>>, context |-> <<>>]

TutorIdle ==
    /\ sessions = <<>>
    /\ messages = <<>>
    /\ memory = EmptyMemory
    /\ analytics = {}
    /\ clock = 0
    /\ quizzes = <<>>
    /\ out = OutNone

\* what a request leaves in the stores of the tutor
Leaves(s, m, mem, l, c, o) ==
    /\ sessions' = s
    /\ messages' = m
    /\ memory' = mem
    /\ llm' = l
    /\ clock' = c
    /\ out' = o
    /\ UNCHANGED <<analytics, quizzes, ret, calls>>

\* chat, lines 38-49: the session of the turn (NoSession: none)
SessionOf(s, who, arg) ==
    IF arg \in DOMAIN s THEN arg
    ELSE IF who # Anon THEN Len(s) + 1 ELSE NoSession

Opens(s, who, arg) == arg \notin DOMAIN s /\ who # Anon

ChatOut(who, r, sid, http) ==
    [OutNone EXCEPT !.op = "chat", !.user = who, !.rid = r, !.sid = sid, !.http = http]

\* chat, lines 134-140, then the response: upd is what
\* update_memory_from_session left, fed the session it was given
ChatEnds(s, m, upd, l, c, o, fed, f, reply) ==
    Leaves(s, m, upd.memory, l, c,
           [o EXCEPT !.http = IF upd.status = "raised" THEN 500 ELSE 200,
                     !.fed = fed, !.fault = f, !.reply = reply])

\* chat, lines 109-142: the two messages are stored, and every
\* CompressEvery-th message of the session the session is compressed
ChatStores(s, m, sid, who, r, l, o, faults) ==
    IF sid # NoSession /\ who # Anon /\ Len(m[sid]) % CompressEvery = 0
    THEN \E reply \in Replies, f \in faults \ {"fetch", "get"} :
            ChatEnds(s, m,
                     UpdateMemoryFromSession(memory, m[sid], <<who, r>>, reply, f, clock + 1),
                     l, clock + 1, o, sid, f, reply)
    ELSE Leaves(s, m, memory, l, clock, [o EXCEPT !.http = 200])

\* chat, lines 102-107, after the retrieval rc
ChatReplies(s, m, sid, who, r, rc, l, faults) ==
    /\ store' = rc.store
    /\ cached' = rc.cached
    /\ IF l.instance = "none"
       THEN Leaves(s, m, memory, l, clock, ChatOut(who, r, sid, 500))
       ELSE /\ sid # NoSession => Len(m[sid]) + 2 <= MaxMessages
            /\ ChatStores(s, IF sid = NoSession THEN m
                             ELSE [m EXCEPT ![sid] = @ \o Exchange],
                          sid, who, r, l,
                          [ChatOut(who, r, sid, 200) EXCEPT !.rag = rc.ctx], faults)

\* chat, lines 51-100 with the session sid in the stores s, m: the profile
\* and the memory are read, then the index
ChatReads(s, m, sid, who, r, q, f, prov, rf, hits) ==
    IF who \in analytics \/ (who # Anon /\ f = "get")
    THEN /\ Leaves(s, m, memory, llm, clock,
                   [ChatOut(who, r, sid, 500) EXCEPT !.fault = f])
         /\ UNCHANGED <<store, cached>>
    ELSE ChatReplies(s, m, sid, who, r,
                     RetrieveContext(store, cached, q, r, prov, rf, hits),
                     GetTutor(llm), IF f = "get" THEN {"none"} ELSE {f})

\* routes/tutor.py chat
Chat(users, rids, faults, ragFaults) ==
    \E who \in users \cup {Anon}, r \in rids, body \in {"message", "empty"} :
        IF body = "empty"
        THEN /\ out' = [OutNone EXCEPT !.op = "chat", !.http = 400]
             /\ UNCHANGED <<sessions, messages, memory, analytics, llm, clock,
                            quizzes, ragVars>>
        ELSE \E arg \in DOMAIN sessions \cup {NoSession}, f \in faults \ {"fetch"},
                q \in Queries, prov \in Provider, rf \in ragFaults :
               \E hits \in HitChoices(store, r) :
                /\ Opens(sessions, who, arg) => Len(sessions) < MaxSessions
                /\ ChatReads(IF Opens(sessions, who, arg)
                             THEN Append(sessions, [user_id |-> who, resource_id |-> r])
                             ELSE sessions,
                             IF Opens(sessions, who, arg)
                             THEN Append(messages, <<>>) ELSE messages,
                             SessionOf(sessions, who, arg), who, r, q, f, prov, rf, hits)

\* routes/tutor.py analyze_answer: llm_service is no name of the module,
\* line 195 raises NameError; the lines after it, which alone write the
\* learning analytics, are never run
AnalyzeAnswer ==
    \E data \in {"none", "incomplete", "full"} :
        /\ out' = [OutNone EXCEPT !.op = "analyze",
                      !.http = IF data = "full" THEN 500 ELSE 400]
        /\ UNCHANGED <<sessions, messages, memory, analytics, llm, clock, quizzes,
                       ragVars>>

\* routes/tutor.py get_predictive_hint: line 307 raises NameError
Hint(users) ==
    \E who \in users \cup {Anon} :
        /\ out' = [OutNone EXCEPT !.op = "hint", !.user = who,
                      !.http = IF who = Anon THEN 200 ELSE 500]
        /\ UNCHANGED <<sessions, messages, memory, analytics, llm, clock, quizzes,
                       ragVars>>

\* Message.get_by_session: _messages.get(session_id, [])
MessagesOf(m, sid) == IF sid \in DOMAIN m THEN m[sid] ELSE <<>>

\* update_memory_from_session called on its own; asked and prompt record
\* whether the LLM was called and with which conversation text
CompressEnds(upd, who, r, sid, reply, f) ==
    /\ memory' = upd.memory
    /\ clock' = clock + 1
    /\ out' = [OutNone EXCEPT !.op = "compress", !.user = who, !.rid = r, !.sid = sid,
                  !.status = upd.status, !.fault = f, !.reply = reply, !.fed = sid,
                  !.asked = LlmAsked(MessagesOf(messages, sid), f),
                  !.prompt = ConversationText(MessagesOf(messages, sid))]
    /\ UNCHANGED <<sessions, messages, analytics, llm, quizzes, ragVars>>

Compress(users, rids, faults) ==
    \E who \in users, r \in rids, sid \in 1..(Len(sessions) + 1), reply \in Replies,
       f \in faults \ {"get"} :
        /\ clock < MaxCompress
        /\ CompressEnds(
               UpdateMemoryFromSession(memory, MessagesOf(messages, sid),
                   <<who, r>>, reply, f, clock + 1),
               who, r, sid, reply, f)

\* chat, line 89, called on its own
Context(users, rids) ==
    \E who \in users, r \in rids :
        /\ memory' = BuildMemoryContext(memory, <<who, r>>).memory
        /\ out' = [OutNone EXCEPT !.op = "context", !.user = who, !.rid = r,
                      !.context = BuildMemoryContext(memory, <<who, r>>).context]
        /\ UNCHANGED <<sessions, messages, analytics, llm, clock, quizzes, ragVars>>

\* routes/tutor.py get_welcome
Welcome(users, rids) ==
    \E who \in users \cup {Anon}, r \in rids, llmRaises \in BOOLEAN :
        /\ IF who = Anon
           THEN /\ out' = [OutNone EXCEPT !.op = "welcome", !.user = who, !.rid = r,
                              !.status = "first", !.http = 200]
                /\ UNCHANGED <<memory, llm>>
           ELSE IF GetTutor(llm).instance = "none"
           THEN /\ out' = [OutNone EXCEPT !.op = "welcome", !.user = who, !.rid = r,
                              !.http = 500]
                /\ UNCHANGED <<memory, llm>>
           ELSE /\ llm' = GetTutor(llm)
                /\ memory' = GenerateWelcomeMessage(memory, <<who, r>>, llmRaises).memory
                /\ out' = [OutNone EXCEPT !.op = "welcome", !.user = who, !.rid = r,
                              !.status = GenerateWelcomeMessage(memory, <<who, r>>,
                                                                llmRaises).welcome,
                              !.http = 200]
        /\ UNCHANGED <<sessions, messages, analytics, clock, quizzes, ragVars>>

OldAverage(mem, k) == IF k \in DOMAIN mem THEN mem[k].average_quiz_score ELSE Unset

\* grades.py lines 51-55: update_quiz_score(user.id, resource_id, pct) sets
\* the average to v
QuizScored(k, pct, v, f, cap) ==
    /\ Len(quizzes) < cap
    /\ memory' = UpdateQuizScore(memory, k, v, f)
    /\ quizzes' = IF f = "none"
                  THEN Append(quizzes, [user |-> k[1], rid |-> k[2], score |-> pct])
                  ELSE quizzes

\* routes/grades.py submit_grade; ags_service.submit_grade returns a dict
\* whatever the LMS does
SubmitGrade(users, rids, scores, maxes, faults, cap) ==
    \E who \in users \cup {Anon}, r \in rids, score \in scores, max_score \in maxes,
       f \in faults \ {"fetch", "get"} :
      \E pct \in Percentage(score, max_score) :
        /\ IF who = Anon
           THEN UNCHANGED <<memory, quizzes>>
           ELSE \E v \in Ema(OldAverage(memory, <<who, r>>), pct) :
                    QuizScored(<<who, r>>, pct, v, f, cap)
        /\ out' = [OutNone EXCEPT !.op = "grade", !.user = who, !.rid = r,
                      !.score = pct, !.fault = f, !.http = 200]
        /\ UNCHANGED <<sessions, messages, analytics, llm, clock, ragVars>>

-----------------------------------------------------------------------------
(* Specifications *)

vars == <<store, cached, ret, calls, sessions, messages, memory, analytics, llm, clock,
          quizzes, out>>

LlmUnset(p) == [provider |-> p, instance |-> "none"]

\* the process has started; LLM_PROVIDER defaults to gemini
Init == RagInit /\ TutorIdle /\ llm = LlmUnset("gemini")

\* the document index
Next == RagNext(ResourceIds, {"none"})
Spec == Init /\ [][Next]_vars

\* the index with store faults injected, one resource
SpecFault == Init /\ [][RagNext({"default"}, StoreFaults)]_vars

\* the index used under two resource ids with the same collection name
SpecCollide == Init /\ [][RagNext(CollidingIds, {"none"})]_vars

MaxBatch == 3
\* strings to embed; the last three agree on their first 200 characters
EmbedTexts ==
    {<<Run("a", 100)>>, <<Run("b", 700)>>, <<Run("c", 250)>>, <<Run("c", 300)>>,
     <<Run("c", 200), Run("d", 1)>>}

RECURSIVE Batches(_)
Batches(n) ==
    IF n = 0 THEN {<<>>}
    ELSE Batches(n - 1) \cup {Append(b, t) : b \in Batches(n - 1), t \in EmbedTexts}

\* a call of _embed about to be made: the batch and what the provider does
EmbedInit ==
    /\ store = [x \in {} |-> x]
    /\ cached = {}
    /\ calls = <<>>
    /\ TutorIdle
    /\ llm = LlmUnset("gemini")
    /\ \E texts \in Batches(MaxBatch), probe \in {"ok", "status", "raise"},
          failAt \in 0..MaxBatch :
           /\ failAt <= Len(texts)
           /\ ret = [op |-> "call", texts |-> texts, probe |-> probe,
                     failAt |-> failAt, vecs |-> <<>>]

\* the call of _embed
EmbedCall ==
    /\ ret.op = "call"
    /\ ret' = [ret EXCEPT !.op = "embed",
                          !.vecs = EmbedBatch(ret.texts, ret.probe, ret.failAt)]
    /\ UNCHANGED <<store, cached, calls, tutorVars>>

\* the embedder
SpecEmbed == EmbedInit /\ [][EmbedCall]_vars

\* the persisted Chroma store the process finds: empty, or one document
\* indexed for the resource "default"
IndexedStore ==
    IngestDocument([x \in {} |-> x], {}, "default", "d1", "notes.txt", TxtOne,
                   "up", "none", "ignore").store

TutorInit ==
    /\ TutorIdle
    /\ llm \in {LlmUnset("gemini"), LlmUnset("ollama")}
    /\ store \in {[x \in {} |-> x], IndexedStore}
    /\ cached = {}
    /\ calls = <<>>
    /\ ret = RetNone

TutorNext ==
    \/ Chat(Users, ResourceIds, {"none", "get", "create", "save"}, {"none"})
    \/ AnalyzeAnswer
    \/ Hint(Users)
    \/ SubmitGrade(Users, ResourceIds, {8}, {10}, {"none"}, TutorGrades)

\* the tutor routes
SpecTutor == TutorInit /\ [][TutorNext]_vars

\* a stored session of four exchanges, as chat leaves it
MemoryInit ==
    /\ RagInit
    /\ sessions = <<[user_id |-> "u1", resource_id |-> "default"]>>
    /\ messages = <<Exchange \o Exchange \o Exchange \o Exchange>>
    /\ memory = EmptyMemory
    /\ analytics = {}
    /\ llm = [provider |-> "ollama", instance |-> "ollama"]
    /\ clock = 0
    /\ quizzes = <<>>
    /\ out = OutNone

MemoryNext ==
    \/ Compress(Users, {"default"}, MemFaults)
    \/ SubmitGrade(Users, {"default"}, {8}, {10}, {"none"}, TutorGrades)

\* the memory service on a stored session
SpecMemory == MemoryInit /\ [][MemoryNext]_vars

\* the grade route
SpecGrades == Init /\ [][SubmitGrade(Users, {"default"}, Scores, MaxScores, {"none", "save"}, MaxGrades)]_vars


-----------------------------------------------------------------------------
(* The LLM adapters: analyze_answer *)

\* str.lower()
RECURSIVE Lower(_)
Lower(t) ==
    IF t = <<>> THEN <<>>
    ELSE LET r == Lower(Tail(t))
             c == IF Head(t).ch = "A" THEN "a" ELSE IF Head(t).ch = "B" THEN "b"
                  ELSE Head(t).ch
         IN  IF r # <<>> /\ Head(r).ch = c
             THEN <<Run(c, Head(t).n + Head(r).n)>> \o Tail(r)
             ELSE <<Run(c, Head(t).n)>> \o r

\* an optional correct_answer: None, or a string
NotGiven == [given |-> FALSE, text |-> <<>>]
Given(t) == [given |-> TRUE, text |-> t]

Verdict(c, s, f) == [is_correct |-> c, score |-> s, feedback |-> f]

FallbackVerdict(is_correct) ==
    Verdict(is_correct, IF is_correct THEN 100 ELSE 0,
            IF is_correct THEN "Respuesta correcta. Buen trabajo!"
            ELSE "Tu respuesta necesita revision.")

\* GeminiTutorService._get_fallback_analysis
GetFallbackAnalysis(student_answer, correct_answer) ==
    FallbackVerdict(/\ correct_answer.given
                    /\ correct_answer.text # <<>>
                    /\ Lower(Strip(student_answer)) = Lower(Strip(correct_answer.text)))

\* GeminiTutorService.analyze_answer; client is whether the API client exists;
\* reply is what the model does with the analysis prompt: it raises, answers
\* prose ("text"), or answers a JSON object ("json", or "fenced" in ```json)
GeminiAnalyzeAnswer(student_answer, correct_answer, client, reply) ==
    IF ~client \/ reply.kind \in {"raise", "text"}
    THEN GetFallbackAnalysis(student_answer, correct_answer)
    ELSE reply.verdict

\* OllamaTutor.analyze_answer; a request that raises yields _generate's
\* fallback text, in which _extract_json finds no JSON
OllamaAnalyzeAnswer(student_answer, context, reply) ==
    IF reply.kind \in {"json", "fenced"}
    THEN reply.verdict
    ELSE Verdict(FALSE, 0, "Error al analizar la respuesta (IA fallo)")

\* analyze_answer(question, student_answer, correct_answer) of the adapter
\* LLMFactory.get_tutor() builds: OllamaTutor takes the third positional
\* argument as its context
AdapterAnalyzeAnswer(provider, student_answer, correct_answer, client, reply) ==
    IF provider = "ollama"
    THEN OllamaAnalyzeAnswer(student_answer, correct_answer, reply)
    ELSE GeminiAnalyzeAnswer(student_answer, correct_answer, client, reply)

Answers == {<<Run("a", 1)>>, <<Run("A", 1)>>, <<Run(" ", 1), Run("a", 1)>>,
            <<Run("b", 1)>>, <<Run("a", 1), Run("b", 1)>>}

\* the student's answer, the expected one if the request names it, and the
\* model's reply with the verdict a JSON reply carries
AnalyzeInit ==
    /\ store = [x \in {} |-> x]
    /\ cached = {}
    /\ calls = <<>>
    /\ TutorIdle
    /\ llm \in {LlmUnset("gemini"), LlmUnset("ollama")}
    /\ \E s \in Answers, c \in {NotGiven} \cup {Given(a) : a \in Answers},
          client \in BOOLEAN, k \in {"raise", "text", "json", "fenced"},
          v \in {Verdict(TRUE, 90, "model"), Verdict(FALSE, 30, "model")} :
           ret = [op |-> "call", student_answer |-> s, correct_answer |-> c,
                  client |-> client, reply |-> [kind |-> k, verdict |-> v],
                  analysis |-> Verdict(FALSE, 0, "")]

\* the call of analyze_answer on the configured adapter
AnalyzeCall ==
    /\ ret.op = "call"
    /\ ret' = [ret EXCEPT !.op = "analyze",
                          !.analysis = AdapterAnalyzeAnswer(llm.provider, ret.student_answer,
                                           ret.correct_answer, ret.client, ret.reply)]
    /\ UNCHANGED <<store, cached, calls, tutorVars>>

\* the adapters' answer analysis
SpecAnalyze == AnalyzeInit /\ [][AnalyzeCall]_vars

-----------------------------------------------------------------------------
(* The chunker on whole documents *)

\* the extracted texts: a body between blanks, texts of 3000 characters, and
\* a text with a short word between long blanks
ChunkTexts ==
    {(IF l > 0 THEN <<Run(" ", l)>> ELSE <<>>) \o <<Run("a", b)>>
         \o (IF t > 0 THEN <<Run(" ", t)>> ELSE <<>>) :
        l \in {0, 1, 45}, b \in {30, 40, 41, 100, 520, 560, 561, 600, 640, 1100},
        t \in {0, 1, 45}}
        \cup {<<Run("a", 3000)>>,
              <<Run("a", 1250), Run(" ", 50), Run("b", 1700)>>,
              <<Run("a", 1500), Run(" ", 100), Run("b", 1400)>>,
              <<Run("a", 520), Run(" ", 180), Run("b", 30), Run(" ", 390), Run("c", 100)>>}

ChunkInit ==
    /\ store = [x \in {} |-> x]
    /\ cached = {}
    /\ calls = <<>>
    /\ TutorIdle
    /\ llm = LlmUnset("gemini")
    /\ \E t \in ChunkTexts : ret = [RetNone EXCEPT !.op = "file", !.text = t]

\* ingest_document on the extracted text, into the empty index
IngestFile ==
    /\ ret.op = "file"
    /\ IngestRet(IngestDocument(store, cached, "default", "d1", "notes.txt", ret.text,
                                "up", "none", "ignore"),
                 "default", "d1", ret.text, "none", 0)

\* one document, chunked and indexed
SpecChunk == ChunkInit /\ [][IngestFile]_vars

-----------------------------------------------------------------------------
(* Concurrent requests on one index.  Flask serves every request in a      *)
(* thread of its own and rag_service takes no lock, so the store calls of  *)
(* two requests interleave; each store call is one step.                   *)

MaxCalls == 2

\* the index of the resource all the requests are for
Shared == store[CollectionName("default")]

Started(g, c) ==
    /\ store' = g.store
    /\ cached' = g.cached
    /\ calls' = Append(calls, c)
    /\ UNCHANGED <<ret, tutorVars>>

\* the step of call i leaves the collection coll and the call as c
Stepped(i, coll, c) ==
    /\ store' = [store EXCEPT ![CollectionName("default")] = coll]
    /\ calls' = [calls EXCEPT ![i] = c]
    /\ UNCHANGED <<cached, ret, tutorVars>>

\* ingest_document up to line 145: the text is chunked and embedded and the
\* collection is opened
StartIngest ==
    /\ Len(calls) < MaxCalls
    /\ \E d \in Docs, t \in {TxtOne, TxtTwo}, p \in Provider :
         Started(GetCollection(store, cached, "default"),
                 [op |-> "ingest", pc |-> "get", doc |-> d,
                  new |-> NewItems("default", d, "notes.txt", ChunkText(t),
                                   Embed(ChunkText(t), p)),
                  existing |-> {}, qe |-> HashEmbed(<<>>), status |-> "running", ctx |-> {}])

\* line 149: collection.get(where={"doc_id": doc_id}); line 150 skips the
\* delete when no id was found
IngestGet(i) ==
    /\ calls[i].op = "ingest" /\ calls[i].pc = "get"
    /\ Stepped(i, Shared,
               [calls[i] EXCEPT !.existing = IdsOfDoc(Shared.items, calls[i].doc),
                                !.pc = IF IdsOfDoc(Shared.items, calls[i].doc) = {}
                                       THEN "add" ELSE "delete"])

\* line 151: collection.delete(ids=existing['ids'])
IngestDelete(i) ==
    /\ calls[i].op = "ingest" /\ calls[i].pc = "delete"
    /\ Stepped(i, [Shared EXCEPT !.items = DeleteIds(@, calls[i].existing)],
               [calls[i] EXCEPT !.pc = "add"])

\* line 155: collection.add
IngestAdd(i) ==
    /\ calls[i].op = "ingest" /\ calls[i].pc = "add"
    /\ \E dup \in DupPolicy :
         IF AddRaises(Shared, calls[i].new, "none", dup)
         THEN Stepped(i, Shared, [calls[i] EXCEPT !.pc = "done", !.status = "raised"])
         ELSE Stepped(i, AddItems(Shared, calls[i].new),
                      [calls[i] EXCEPT !.pc = "done", !.status = "ok"])

\* retrieve_context up to line 167: the query is embedded and the collection
\* is opened
StartRetrieve ==
    /\ Len(calls) < MaxCalls
    /\ \E q \in Queries, p \in Provider :
         Started(GetCollection(store, cached, "default"),
                 [op |-> "retrieve", pc |-> "count", doc |-> "", new |-> EmptyItems,
                  existing |-> {}, qe |-> Embed(<<q>>, p)[1], status |-> "running",
                  ctx |-> {}])

\* lines 169-170: if collection.count() == 0: return ""
RetrieveCount(i) ==
    /\ calls[i].op = "retrieve" /\ calls[i].pc = "count"
    /\ Stepped(i, Shared,
               IF DOMAIN Shared.items = {}
               THEN [calls[i] EXCEPT !.pc = "done", !.status = "empty"]
               ELSE [calls[i] EXCEPT !.pc = "query"])

\* lines 172-193: collection.query and what is made of its result
RetrieveQuery(i) ==
    /\ calls[i].op = "retrieve" /\ calls[i].pc = "query"
    /\ \E hits \in HitChoices(store, "default") :
         Stepped(i, Shared,
                 [calls[i] EXCEPT !.pc = "done", !.status = "returned",
                     !.ctx = Caught(Query([store |-> store, cached |-> cached], Shared,
                                          calls[i].qe, "none", hits)).ctx])

RaceInit ==
    /\ store = IndexedStore
    /\ cached = {}
    /\ calls = <<>>
    /\ ret = RetNone
    /\ TutorIdle
    /\ llm = LlmUnset("gemini")

RaceNext ==
    \/ StartIngest
    \/ StartRetrieve
    \/ \E i \in DOMAIN calls :
          \/ IngestGet(i)
          \/ IngestDelete(i)
          \/ IngestAdd(i)
          \/ RetrieveCount(i)
          \/ RetrieveQuery(i)

\* requests served concurrently on the index that holds one document
SpecRace == RaceInit /\ [][RaceNext]_vars

-----------------------------------------------------------------------------
(* The memory service on sessions of any length *)

MaxTurns == 12

\* the two messages chat stores in turn i; the content is the turn's number
Turn(i) == <<[role |-> "user", content |-> i], [role |-> "assistant", content |-> i]>>

RECURSIVE Turns(_)
Turns(n) == IF n = 0 THEN <<>> ELSE Turns(n - 1) \o Turn(n)

\* the message lists update_memory_from_session may find: the turns of a
\* chat, none, or messages of the assistant alone
SessionShapes ==
    {Turns(n) : n \in 0..MaxTurns}
        \cup {SelectSeq(Turns(n), LAMBDA m : m.role = "assistant") : n \in 1..2}

CompressInit ==
    /\ RagInit
    /\ sessions = <<[user_id |-> "u1", resource_id |-> "default"]>>
    /\ messages \in {<<m>> : m \in SessionShapes}
    /\ memory = EmptyMemory
    /\ analytics = {}
    /\ llm = [provider |-> "ollama", instance |-> "ollama"]
    /\ clock = 0
    /\ quizzes = <<>>
    /\ out = OutNone

\* update_memory_from_session on one stored session
SpecCompress == CompressInit /\ [][Compress({"u1"}, {"default"}, {"none", "save"})]_vars

-----------------------------------------------------------------------------
(* The writers and the readers of a memory record *)

WritersNext ==
    \/ Compress({"u1"}, {"default"}, {"none"})
    \/ SubmitGrade({"u1"}, {"default"}, {5, 8}, {10}, {"none"}, TutorGrades)
    \/ Context(Users, {"default"})
    \/ Welcome(Users, {"default"})

\* the four functions of memory_service on the records of one resource
SpecWriters == MemoryInit /\ [][WritersNext]_vars

-----------------------------------------------------------------------------
(* Concurrent chat turns on one session.  The steps of a turn are the      *)
(* calls of chat that read or write the stores after the reply of the LLM  *)
(* is there: the two saves, the count, the compression, the response.      *)

MaxChats == 2

\* the stores as earlier turns of u1 left them: a session of n turns, and
\* the memory the compression at 10 messages wrote if there was one
AfterTurns(n) ==
    [messages |-> <<Turns(n)>>,
     memory   |-> IF 2 * n < CompressEvery THEN EmptyMemory
                  ELSE UpdateMemoryFromSession(EmptyMemory, Turns(5), <<"u1", "default">>,
                                               ReplyShort, "none", 1).memory,
     clock    |-> IF 2 * n < CompressEvery THEN 0 ELSE 1]

TurnsInit ==
    /\ RagInit
    /\ sessions = <<[user_id |-> "u1", resource_id |-> "default"]>>
    /\ \E n \in {3, 4, 8, 9} :
          /\ messages = AfterTurns(n).messages
          /\ memory = AfterTurns(n).memory
          /\ clock = AfterTurns(n).clock
    /\ analytics = {}
    /\ llm = [provider |-> "ollama", instance |-> "ollama"]
    /\ quizzes = <<>>
    /\ out = OutNone

\* call i moves on to c, leaving the messages m, the memory mem, the clock c
Turned(i, c, m, mem, now) ==
    /\ calls' = [calls EXCEPT ![i] = c]
    /\ messages' = m
    /\ memory' = mem
    /\ clock' = now
    /\ UNCHANGED <<sessions, analytics, llm, quizzes, out, store, cached, ret>>

\* chat, lines 30-107, of u1 for the session 1: the memory and the index are
\* read and the LLM has replied
StartChat ==
    /\ Len(calls) < MaxChats
    /\ \E q \in Queries :
         /\ store' = RetrieveContext(store, cached, q, "default", "up", "none", {}).store
         /\ cached' = RetrieveContext(store, cached, q, "default", "up", "none", {}).cached
    /\ calls' = Append(calls, [op |-> "chat", pc |-> "user", len |-> 0,
                               compressed |-> FALSE, http |-> 0])
    /\ UNCHANGED <<ret, tutorVars>>

\* line 116: user_msg.save()
SaveUserMessage(i) ==
    /\ calls[i].pc = "user"
    /\ Turned(i, [calls[i] EXCEPT !.pc = "assistant"],
              [messages EXCEPT ![1] = Append(@, Turn(i)[1])], memory, clock)

\* line 124: assistant_msg.save()
SaveAssistantMessage(i) ==
    /\ calls[i].pc = "assistant"
    /\ Turned(i, [calls[i] EXCEPT !.pc = "count"],
              [messages EXCEPT ![1] = Append(@, Turn(i)[2])], memory, clock)

\* lines 136-138: the messages are counted
CountMessages(i) ==
    /\ calls[i].pc = "count"
    /\ Turned(i, [calls[i] EXCEPT !.len = Len(MessagesOf(messages, 1)),
                     !.pc = IF Len(MessagesOf(messages, 1)) % CompressEvery = 0
                            THEN "compress" ELSE "respond"],
              messages, memory, clock)

\* line 140: update_memory_from_session, called by chat before it returns
CompressTurn(i) ==
    /\ calls[i].pc = "compress"
    /\ \E reply \in {ReplyShort, ReplyRaise} :
         Turned(i, [calls[i] EXCEPT !.pc = "respond", !.compressed = TRUE], messages,
                UpdateMemoryFromSession(memory, MessagesOf(messages, 1), <<"u1", "default">>,
                                        reply, "none", clock + 1).memory,
                clock + 1)

\* line 142: return jsonify(response_data)
Respond(i) ==
    /\ calls[i].pc = "respond"
    /\ Turned(i, [calls[i] EXCEPT !.pc = "done", !.http = 200], messages, memory, clock)

TurnsNext ==
    \/ StartChat
    \/ \E i \in DOMAIN calls :
          \/ SaveUserMessage(i)
          \/ SaveAssistantMessage(i)
          \/ CountMessages(i)
          \/ CompressTurn(i)
          \/ Respond(i)

\* chat turns of one user on one session, served in threads
SpecTurns == TurnsInit /\ [][TurnsNext]_vars

-----------------------------------------------------------------------------
(* Claims about the index *)

Items(r) == IF CollectionName(r) \in DOMAIN store
            THEN store[CollectionName(r)].items ELSE EmptyItems

\* C1: ingestion idempotency.  When ingest_document(d) into resource r has
\* returned, the index of r holds for d exactly the chunks of the text just
\* ingested, ids d_chunk_0 .. d_chunk_(n-1), whatever was stored for d before
\* (also a version with more chunks).
IngestIdempotent ==
    (ret.op = "ingest" /\ ret.status = "ok") =>
        /\ ret.n = Len(ChunkText(ret.text))
        /\ IdsOfDoc(Items(ret.rid), ret.doc) = {<<ret.doc, i>> : i \in 0..(ret.n - 1)}
        /\ \A i \in 0..(ret.n - 1) :
              /\ Items(ret.rid)[<<ret.doc, i>>].document = ChunkText(ret.text)[i + 1]
              /\ Items(ret.rid)[<<ret.doc, i>>].chunk = i

\* a re-ingestion that replaced a version with more chunks
ReingestedShorter == ret.op = "ingest" /\ ret.status = "ok" /\ ret.had > ret.n

\* C2 as claimed: what retrieve_context(q, r) returns and what
\* list_documents(r) lists was ingested with resource id r, and two resource
\* ids never share a collection.
NoCrossResourceLeak ==
    /\ ret.op = "retrieve" => \A c \in ret.ctx : c.rid = ret.rid
    /\ ret.op = "list" =>
          \A l \in ret.docs : \A e \in DocItems(store, ret.rid, l.doc_id) : e.rid = ret.rid
    /\ \A name \in DOMAIN store : \A x, y \in DOMAIN store[name].items :
          store[name].items[x].rid = store[name].items[y].rid

\* the failures of a retrieve_context call: the store fails, or the query
\* vector has another length than the stored ones
QueryDims(p) == IF p = "up" THEN ProviderDims ELSE FallbackDims
RetrievalFails ==
    \/ ret.fault # "none"
    \/ Items(ret.rid) # EmptyItems /\ store[CollectionName(ret.rid)].dim # QueryDims(ret.prov)

\* C3: retrieve_context always returns; it returns "" when the index of the
\* resource is empty and when a step of it fails.
RetrieveNeverRaises ==
    ret.op = "retrieve" =>
        /\ ret.status = "returned"
        /\ (Items(ret.rid) = EmptyItems \/ RetrievalFails) => ret.ctx = {}

\* a retrieval whose query vector does not fit the stored vectors
RetrievedWithWrongDims ==
    /\ ret.op = "retrieve" /\ ret.fault = "none" /\ ret.ctx = {}
    /\ Items(ret.rid) # EmptyItems
    /\ store[CollectionName(ret.rid)].dim # QueryDims(ret.prov)

\* C9 as claimed: the query of a retrieval is embedded with the strategy of
\* the chunks stored for the resource.
QuerySpace(p) == IF p = "up" THEN "provider" ELSE "fallback"
SameEmbeddingSpace ==
    ret.op = "retrieve" =>
        \A x \in DOMAIN Items(ret.rid) :
            Items(ret.rid)[x].embedding.space = QuerySpace(ret.prov)

\* C10: an ingestion whose text is empty, blank or yields no chunk is rejected
\* and leaves the store and the handle cache as they were; the upload route
\* answers it with an error status.
RejectionLeavesIndex ==
    [][(/\ ret'.op \in {"ingest", "upload"}
        /\ ret'.status # "refused"
        /\ Strip(ret'.text) = <<>> \/ ChunkText(ret'.text) = <<>>)
       => /\ ret'.status \in {"no_text", "too_short"}
          /\ store' = store
          /\ cached' = cached
          /\ ret'.op = "upload" => ret'.http = 500]_vars

\* a rejected re-ingestion: the earlier version of the document is still there
RejectedKeepsEarlier ==
    /\ ret.op = "ingest" /\ ret.status = "too_short" /\ ret.had > 0
    /\ Cardinality(DocItems(store, ret.rid, ret.doc)) = ret.had

-----------------------------------------------------------------------------
(* Claims about the tutor routes and the adaptive memory *)

\* C4 as claimed: a chat request with a message, an analyze-answer request
\* with question and answer and a hint request are answered with a result,
\* never with an unhandled error.
AlwaysResponds ==
    (out.op \in {"chat", "analyze", "hint"} /\ out.http # 400) => out.http = 200

\* C5: update_memory_from_session returns normally whatever step of it
\* fails: the message fetch, get_or_create, the LLM call, the parsing of the
\* reply, the merge, the save.
CompressionNeverPropagates ==
    out.op = "compress" => out.status = "returned"

\* compressions in which a store call, the LLM call or the merge raised
CompressionFailedQuietly ==
    /\ out.op = "compress" /\ out.status = "returned"
    /\ \/ out.fault \in {"fetch", "create", "save"}
       \/ out.fault = "none" /\ out.sid \in DOMAIN sessions
             /\ out.reply \in {ReplyRaise, ReplyText, ReplyArray, ReplyBadWeak}

NoDuplicate(s) == \A i, j \in DOMAIN s : s[i] = s[j] => i = j

\* C6: every memory record holds at most 5 recent topics, 3 weak areas and 3
\* strong areas, and no list holds an element twice.
MemoryBounded ==
    \A k \in DOMAIN memory :
        /\ Len(memory[k].last_topics) <= 5
        /\ Len(memory[k].weak_areas) <= 3
        /\ Len(memory[k].strong_areas) <= 3
        /\ NoDuplicate(memory[k].last_topics)
        /\ NoDuplicate(memory[k].weak_areas)
        /\ NoDuplicate(memory[k].strong_areas)

\* a second compression whose reply, with duplicates, names more topics and
\* areas than the caps and was merged into a record that held some
MergedOverCaps ==
    /\ out.op = "compress" /\ out.reply = ReplyLong /\ out.fault = "none"
    /\ <<out.user, out.rid>> \in DOMAIN memory
    /\ memory[<<out.user, out.rid>>].session_count = 2
    /\ memory[<<out.user, out.rid>>].last_topics = <<"t4", "t5", "t6", "t7", "t8">>
    /\ memory[<<out.user, out.rid>>].weak_areas = <<"t2", "t3", "t4">>
    /\ memory[<<out.user, out.rid>>].strong_areas = <<"t1", "t6", "t4">>

\* the samples update_quiz_score has taken for the key
Samples(k) ==
    {quizzes[i].score : i \in {j \in DOMAIN quizzes :
                                  quizzes[j].user = k[1] /\ quizzes[j].rid = k[2]}}

\* C7: the first sample sets the average; a later sample s sets it to
\* 0.7 * old + 0.3 * s rounded to one decimal (in tenths: within half a tenth
\* of the exact value), never to s when s differs from old; 80 and 50 give
\* 71.0; the average lies between the smallest and the largest sample.
EmaUpdate ==
    /\ [][(out'.op = "grade" /\ out'.user # Anon /\ out'.fault = "none") =>
            LET k   == <<out'.user, out'.rid>>
                old == OldAverage(memory, k)
                new == memory'[k].average_quiz_score
                s   == out'.score
            IN  /\ old = Unset => new = s
                /\ old # Unset =>
                      /\ 10 * new - (7 * old + 3 * s) \in -5..5
                      /\ s # old => new # s
                /\ (old = 800 /\ s = 500) => new = 710]_vars
    /\ [](\A k \in DOMAIN memory :
            memory[k].average_quiz_score # Unset =>
                /\ \E s \in Samples(k) : s <= memory[k].average_quiz_score
                /\ \E s \in Samples(k) : s >= memory[k].average_quiz_score)

\* an average of 80 has taken the sample 50
AveragedEightyFifty ==
    /\ out.op = "grade" /\ out.user # Anon /\ out.score = 500
    /\ Len(quizzes) = 2 /\ quizzes[1].score = 800
    /\ quizzes[1].user = out.user /\ quizzes[2].user = out.user
    /\ memory[<<out.user, out.rid>>].average_quiz_score = 710

\* C8 as claimed: the record of (u, r) is created or changed only by a chat
\* turn of u in r that compresses a session of u created in r, and by a grade
\* submission of u in r.
MemoryIsolated ==
    [][\A k \in DOMAIN memory' :
          (k \notin DOMAIN memory \/ memory'[k] # memory[k]) =>
              /\ k = <<out'.user, out'.rid>>
              /\ out'.op \in {"chat", "grade"}
              /\ out'.op = "chat" =>
                    /\ out'.fed \in DOMAIN sessions'
                    /\ sessions'[out'.fed].user_id = k[1]
                    /\ sessions'[out'.fed].resource_id = k[2]]_vars

-----------------------------------------------------------------------------
(* Claims about the embedder *)

\* the vector of text t in strategy sp
VectorOf(t, sp) ==
    IF sp = "provider" THEN [dims |-> 768, space |-> "provider", key |-> t]
    ELSE [dims |-> 256, space |-> "fallback", key |-> Slice(t, 0, 200)]

\* C11: _embed returns one vector per input string, in input order, all of
\* one strategy; when the probe or any request of the loop fails, every
\* vector of the batch is a fallback vector.
EmbedBatchContract ==
    ret.op = "embed" =>
        /\ Len(ret.vecs) = Len(ret.texts)
        /\ \E sp \in {"provider", "fallback"} :
              \A i \in 1..Len(ret.texts) : ret.vecs[i] = VectorOf(ret.texts[i], sp)
        /\ (ret.probe # "ok" \/ ret.failAt \in 1..Len(ret.texts)) =>
              \A i \in 1..Len(ret.vecs) : ret.vecs[i].space = "fallback"

\* the last request of a batch of three failed after the provider had
\* embedded the first two strings
EmbedFailedLate ==
    /\ ret.op = "embed" /\ ret.probe = "ok" /\ Len(ret.texts) = 3 /\ ret.failAt = 3
    /\ \A i \in 1..3 : ret.vecs[i].space = "fallback"

\* C15 as claimed: two different strings never get the same fallback vector,
\* also when they agree on their first 200 characters.
FallbackInjective ==
    ret.op = "embed" =>
        \A i, j \in 1..Len(ret.vecs) :
            (ret.vecs[i].space = "fallback" /\ ret.texts[i] # ret.texts[j]) =>
                ret.vecs[i] # ret.vecs[j]

-----------------------------------------------------------------------------
(* Claims about deleting and listing documents *)

\* the stored entries: <<collection name, id, entry>>
Entries(st) ==
    UNION {{<<name, x, st[name].items[x]>> : x \in DOMAIN st[name].items} :
              name \in DOMAIN st}

\* C12 as claimed: delete_document(d, r) leaves no chunk of d in the index of
\* r and returns true exactly when it removed one; the chunks of the other
\* documents of r and the chunks ingested under another resource id stay as
\* they are; a second delete of d in r returns false and changes nothing.
DeleteFrame ==
    [][ret'.op = "delete" =>
          /\ DocItems(store', ret'.rid, ret'.doc) = {}
          /\ ret'.found <=> (DocItems(store, ret'.rid, ret'.doc) # {})
          /\ \A e \in Entries(store) :
                (e[3].doc_id # ret'.doc \/ e[3].rid # ret'.rid) => e \in Entries(store')
          /\ Entries(store') \subseteq Entries(store)
          /\ (ret.op = "delete" /\ ret.rid = ret'.rid /\ ret.doc = ret'.doc) =>
                (~ret'.found /\ store' = store)]_vars

\* C13: list_documents(r) returns one entry for each document id that has a
\* chunk in the index of r, and no other entry.
ListExact ==
    ret.op = "list" =>
        /\ {l.doc_id : l \in ret.docs} = {d \in Docs : DocItems(store, ret.rid, d) # {}}
        /\ ret.n = Cardinality({d \in Docs : DocItems(store, ret.rid, d) # {}})

\* a listing of an index that holds a document of several chunks and from
\* which another document was deleted
ListedAfterDelete ==
    /\ ret.op = "list" /\ ret.n = 1
    /\ \E d \in Docs : Cardinality(DocItems(store, ret.rid, d)) > 1
    /\ \E d \in Docs : DocItems(store, ret.rid, d) = {}

-----------------------------------------------------------------------------
(* Claims about the LLM adapters *)

\* the model's reply was no JSON, or the request failed
AnalysisFellBack == ret.op = "analyze" /\ ret.reply.kind \in {"raise", "text"}

\* C14 as claimed: when the reply is not JSON or the call errors, every adapter
\* compares student_answer with a supplied correct_answer (equal answers are
\* correct with score 100, answers that differ in more than case and padding
\* are wrong with score 0), and gives the neutral verdict when none was supplied.
AnalysisFallback ==
    AnalysisFellBack =>
        /\ ret.analysis.feedback # ""
        /\ ret.analysis.score = IF ret.analysis.is_correct THEN 100 ELSE 0
        /\ ~ret.correct_answer.given => ~ret.analysis.is_correct
        /\ (ret.correct_answer.given /\ ret.student_answer = ret.correct_answer.text)
              => ret.analysis.is_correct
        /\ (/\ ret.correct_answer.given
            /\ Lower(Strip(ret.student_answer)) # Lower(Strip(ret.correct_answer.text)))
              => ~ret.analysis.is_correct

-----------------------------------------------------------------------------
(* Claims about the chunker *)

\* text[start:start + CHUNK_SIZE] of window k (k = 0, 1, ...)
RawWindow(text, k) ==
    Slice(text, k * (CHUNK_SIZE - CHUNK_OVERLAP),
          Min(k * (CHUNK_SIZE - CHUNK_OVERLAP) + CHUNK_SIZE, StrLen(text)))

WindowIndexes(text) ==
    {k \in 0..(StrLen(text) \div (CHUNK_SIZE - CHUNK_OVERLAP)) :
        k * (CHUNK_SIZE - CHUNK_OVERLAP) < StrLen(text)}

\* the emitted chunks, each with the place of its first character in the text
Placed(text) ==
    {[from |-> k * (CHUNK_SIZE - CHUNK_OVERLAP)
                 + (IF RawWindow(text, k) # <<>> /\ IsSpace(Head(RawWindow(text, k)))
                    THEN Head(RawWindow(text, k)).n ELSE 0),
      chunk |-> Strip(RawWindow(text, k))] :
        k \in {j \in WindowIndexes(text) : StrLen(Strip(RawWindow(text, j))) > MinChunkLen}}

\* C16 as claimed: of a text of 40 characters or more, every character lies
\* in a chunk that is emitted (and stored), laid at its window's position.
ChunkCoverage ==
    (ret.op = "ingest" /\ StrLen(ret.text) >= 40) =>
        /\ {e.document : e \in DocItems(store, "default", "d1")}
              = {c.chunk : c \in Placed(ret.text)}
        /\ \A p \in 0..(StrLen(ret.text) - 1) :
              \E c \in Placed(ret.text) : c.from <= p /\ p < c.from + StrLen(c.chunk)

\* no window of the text is shortened by strip()
Untrimmed(text) == \A k \in WindowIndexes(text) : Strip(RawWindow(text, k)) = RawWindow(text, k)

\* C17 as claimed: a text of 3000 characters, no window trimmed, is stored
\* as 5 chunks and 5 is returned.
ThreeThousandInFive ==
    (ret.op = "ingest" /\ StrLen(ret.text) = 3000 /\ Untrimmed(ret.text)) =>
        ret.n = 5 /\ Cardinality(DocItems(store, "default", "d1")) = 5

\* C17 amended: a text of 3000 characters, no window trimmed, is stored as 6
\* chunks (windows at 0, 520, ..., 2600) and 6 is returned.
ThreeThousandInSix ==
    (ret.op = "ingest" /\ StrLen(ret.text) = 3000 /\ Untrimmed(ret.text)) =>
        ret.n = 6 /\ Cardinality(DocItems(store, "default", "d1")) = 6

IngestedThreeThousand ==
    /\ ret.op = "ingest" /\ ret.status = "ok"
    /\ StrLen(ret.text) = 3000 /\ Untrimmed(ret.text) /\ Len(ret.text) > 1
    /\ Cardinality(DocItems(store, "default", "d1")) = 6

-----------------------------------------------------------------------------
(* Claims about the replacement of a document's chunks *)

\* the chunks of a text as <<chunk number, document>> pairs
ChunkSet(text) == {<<i - 1, ChunkText(text)[i]>> : i \in 1..Len(ChunkText(text))}
Held(st, r, d) == {<<e.chunk, e.document>> : e \in DocItems(st, r, d)}

\* C19 as claimed: when a re-ingestion of a stored document ends, with or
\* without an error, the index holds for it the chunks it held before or the
\* chunks of the new text: not nothing, and no mixture.
AtomicReplacement ==
    [][(ret'.op = "ingest" /\ DocItems(store, ret'.rid, ret'.doc) # {}) =>
          \/ DocItems(store', ret'.rid, ret'.doc) = DocItems(store, ret'.rid, ret'.doc)
          \/ Held(store', ret'.rid, ret'.doc) = ChunkSet(ret'.text)]_vars

-----------------------------------------------------------------------------
(* Claims about concurrent requests *)

\* call j has deleted the stored chunks of its document and not yet added the
\* new ones, which the index will accept
HalfReplaced(j) ==
    /\ calls[j].op = "ingest" /\ calls[j].pc = "add" /\ calls[j].existing # {}
    /\ ~AddRaises(Shared, calls[j].new, "none", "ignore")

\* C18 as claimed: no retrieve_context returns the "index empty" result
\* while a re-ingestion has deleted the old chunks of its document and not
\* yet inserted the new ones.
NoHalfReplacedSeen ==
    [][\A i \in DOMAIN calls :
          (calls[i].pc = "count" /\ calls'[i].status = "empty") =>
              ~\E j \in DOMAIN calls : HalfReplaced(j)]_vars

\* C20 as claimed: two ingestions of different documents, interleaved in any
\* way, both complete, and the index then holds the chunks of both.
DifferentDocsBothStored ==
    \A i, j \in DOMAIN calls :
        (/\ calls[i].op = "ingest" /\ calls[j].op = "ingest"
         /\ calls[i].doc # calls[j].doc
         /\ calls[i].pc = "done" /\ calls[j].pc = "done") =>
            /\ calls[i].status = "ok" /\ calls[j].status = "ok"
            /\ \A x \in DOMAIN calls[i].new :
                  x \in DOMAIN Shared.items /\ Shared.items[x] = calls[i].new[x]
            /\ IdsOfDoc(Shared.items, calls[i].doc) = DOMAIN calls[i].new

-----------------------------------------------------------------------------
(* Claims about the compression of a session *)

\* the record of key k before a call: a record that is not stored reads as
\* the one get_or_create makes
RecordOf(mem, k) == IF k \in DOMAIN mem THEN mem[k] ELSE DefaultMemory

Content(rec) == <<rec.last_topics, rec.weak_areas, rec.strong_areas, rec.summary>>

\* the reply is no JSON, no object, or an object with a field that is no
\* list of strings
Malformed(reply) ==
    reply.kind \in {"text", "array"} \/ reply.fence = "lead" \/ reply.notlist # ""

\* C22 as claimed: a compression whose reply is malformed leaves last_topics,
\* weak_areas, strong_areas and summary as they were, all four.
MalformedKeepsContent ==
    [][(out'.op = "compress" /\ Malformed(out'.reply)) =>
          Content(RecordOf(memory', <<out'.user, out'.rid>>))
              = Content(RecordOf(memory, <<out'.user, out'.rid>>))]_vars

\* the elements of s without the later duplicates, the first cap of them
FirstOccurrences(s) == {i \in DOMAIN s : \A j \in 1..(i - 1) : s[j] # s[i]}
NewThenOld(new, old, cap) ==
    LET s == new \o old
        I == FirstOccurrences(s)
    IN  [n \in 1..Min(cap, Cardinality(I)) |->
            s[CHOOSE i \in I : Cardinality({j \in I : j <= i}) = n]]

\* a compression that reached the merge with a well-formed reply
MergedReply ==
    /\ out.op = "compress" /\ out.fault = "none" /\ out.sid \in DOMAIN messages
    /\ out.reply.kind = "object" /\ ~Malformed(out.reply)

\* C23: a successful compression sets each list to the first cap elements
\* (5 topics, 3 areas) of the reply's list followed by the stored list, later
\* duplicates removed.
MergeOrder ==
    [][MergedReply' =>
          LET old == RecordOf(memory, <<out'.user, out'.rid>>)
              new == memory'[<<out'.user, out'.rid>>]
          IN  /\ new.last_topics = NewThenOld(out'.reply.topics, old.last_topics, 5)
              /\ new.weak_areas = NewThenOld(out'.reply.weak_areas, old.weak_areas, 3)
              /\ new.strong_areas = NewThenOld(out'.reply.strong_areas, old.strong_areas, 3)]_vars

\* the short reply merged into the record the long reply left: new items come
\* first, a stored item the reply repeats is not kept twice, the tail is cut
MergedNewFirst ==
    /\ MergedReply /\ out.reply = ReplyShort
    /\ memory[<<out.user, out.rid>>].session_count = 2
    /\ memory[<<out.user, out.rid>>].last_topics = <<"t1", "t2", "t3", "t4", "t5">>
    /\ memory[<<out.user, out.rid>>].weak_areas = <<"t1", "t2", "t3">>
    /\ memory[<<out.user, out.rid>>].strong_areas = <<"t2", "t1", "t6">>

\* the user messages of session sid, oldest first
UserContents(sid) ==
    LET u == SelectSeq(MessagesOf(messages, sid), LAMBDA m : m.role = "user")
    IN  [i \in DOMAIN u |-> u[i].content]

\* C24 as claimed: the conversation text given to the LLM is made of the 10
\* most recent user messages of the session, or of all when there are fewer.
NewestUserMessages ==
    (out.op = "compress" /\ out.asked) =>
        out.prompt = SubSeq(UserContents(out.sid),
                            Max(1, Len(UserContents(out.sid)) - 9),
                            Len(UserContents(out.sid)))

\* C25 as claimed: a compression that finds no user message in the session
\* does not call the LLM and leaves topics, areas and summary, but counts the
\* session and its messages, sets last_seen and saves the record.
NothingToCompress ==
    [][(out'.op = "compress" /\ out'.fault = "none" /\ UserContents(out'.sid) = <<>>) =>
          /\ ~out'.asked
          /\ <<out'.user, out'.rid>> \in DOMAIN memory'
          /\ LET old == RecordOf(memory, <<out'.user, out'.rid>>)
                 new == memory'[<<out'.user, out'.rid>>]
             IN  /\ Content(new) = Content(old)
                 /\ new.session_count = old.session_count + 1
                 /\ new.total_messages
                       = old.total_messages + Len(MessagesOf(messages, out'.sid))
                 /\ new.last_seen = clock']_vars

-----------------------------------------------------------------------------
(* Claims about the fields of a memory record *)

CompressionFields(rec) ==
    <<rec.last_topics, rec.weak_areas, rec.strong_areas, rec.summary,
      rec.session_count, rec.total_messages, rec.last_seen>>

\* C29: update_memory_from_session leaves average_quiz_score, update_quiz_score
\* leaves the seven other fields, and build_memory_context and
\* generate_welcome_message change no record and create none.
WritersOfMemory ==
    [][/\ out'.op = "compress" =>
            \A k \in DOMAIN memory' :
                memory'[k].average_quiz_score = RecordOf(memory, k).average_quiz_score
       /\ out'.op = "grade" =>
            \A k \in DOMAIN memory' :
                CompressionFields(memory'[k]) = CompressionFields(RecordOf(memory, k))
       /\ out'.op \in {"context", "welcome"} => memory' = memory]_vars

\* the context of a user without a record was asked for, after both writers
\* had written the record of another user
ReadAfterBothWriters ==
    /\ out.op = "context" /\ out.context = <<>>
    /\ <<out.user, out.rid>> \notin DOMAIN memory
    /\ \E k \in DOMAIN memory :
          memory[k].session_count > 0 /\ memory[k].average_quiz_score # Unset

-----------------------------------------------------------------------------
(* Claims about the chunk length threshold and the creation of collections *)

\* C27 as claimed: a window is emitted exactly when its trimmed length is 40
\* or more, and a text whose trimmed length is 40 is ingested as one chunk.
MinLengthBoundary ==
    ret.op = "ingest" =>
        /\ ret.n = Cardinality({k \in WindowIndexes(ret.text) :
                                   StrLen(Strip(RawWindow(ret.text, k))) >= 40})
        /\ StrLen(Strip(ret.text)) = 40 => (ret.status = "ok" /\ ret.n = 1)

\* C28 as claimed: retrieve_context, list_documents and delete_document leave
\* the set of existing collections as it is.
LazyCreation ==
    [][ret'.op \in {"retrieve", "list", "delete"} => DOMAIN store' = DOMAIN store]_vars

-----------------------------------------------------------------------------
(* Claims about chat turns *)

\* the multiples of 10 the message count of session 1 reached during the
\* calls: every call stored two messages
MultiplesReached ==
    {n \in (Len(messages[1]) - 2 * Len(calls) + 1)..Len(messages[1]) :
        n % CompressEvery = 0}

\* C21 as claimed: when the turns have ended, every multiple of 10 the
\* message count reached has triggered one compression, and no compression
\* was triggered otherwise.
CompressionCadence ==
    (\A i \in DOMAIN calls : calls[i].pc = "done") =>
        /\ \A n \in MultiplesReached :
              Cardinality({i \in DOMAIN calls : calls[i].compressed /\ calls[i].len = n}) = 1
        /\ \A i \in DOMAIN calls : calls[i].compressed => calls[i].len \in MultiplesReached

\* C26 as claimed: the response of a turn has been returned when the
\* compression of that turn starts.
ReplyBeforeCompression ==
    \A i \in DOMAIN calls : calls[i].pc = "compress" => calls[i].http = 200

\* the messages stored in the sessions of user k[1] in resource k[2]
RECURSIVE StoredIn(_, _)
StoredIn(k, n) ==
    IF n = 0 THEN 0
    ELSE StoredIn(k, n - 1)
           + (IF sessions[n].user_id = k[1] /\ sessions[n].resource_id = k[2]
              THEN Len(messages[n]) ELSE 0)

\* C30 as claimed: total_messages of a record is at most the number of
\* messages stored in the user's sessions of the resource, and session_count
\* at most the number of those sessions.
CountersAccurate ==
    \A k \in DOMAIN memory :
        /\ memory[k].total_messages <= StoredIn(k, Len(sessions))
        /\ memory[k].session_count
              <= Cardinality({n \in DOMAIN sessions :
                                 sessions[n].user_id = k[1] /\ sessions[n].resource_id = k[2]})

=============================================================================
